---- MODULE Spec2Model ----
(***************************************************************************)
(* Model of Expense_Tracker.py: the monthly budget resolver               *)
(* (load_or_create_budget), expense entry (get_user_expense), the ledger   *)
(* append (save_expense) and the report (summarize, visual_summary).       *)
(*                                                                         *)
(* Text is modelled as sequences of one-character strings, so that         *)
(* str.strip, str.lower, str.split, float(), int() and str(float) are      *)
(* computed character by character.  Python floats are modelled as exact   *)
(* rationals n/d plus the value nan; rounding is not modelled.  The        *)
(* characters that occur are those of Alphabet: float() and int() are      *)
(* modelled on strings over it (no exponent, no "inf", no "_", and -0.0 is *)
(* not distinguished from 0.0).                                            *)
(***************************************************************************)
EXTENDS Integers, Sequences, FiniteSets, TLC

\* ------------------------------------------------------------------------
\*  Bounds of the model
\* ------------------------------------------------------------------------
\* number of runs of main() in a behaviour of Spec
MaxRuns == 2
\* number of lines of an expense store drawn by InitSum
MaxStoreLen == 2

\* ------------------------------------------------------------------------
\*  Text
\* ------------------------------------------------------------------------
Digit == <<"0", "1", "2", "3", "4", "5", "6", "7", "8", "9">>

Alphabet == {Digit[i] : i \in 1..10} \cup
            {".", "-", "+", ",", " ", "\n", "_", "a", "b", "n", "y", "Y", "N", "x"}

IsSpace(c) == c \in {" ", "\n"}

IsDigit(c) == \E i \in 1..10 : Digit[i] = c

DigitVal(c) == (CHOOSE i \in 1..10 : Digit[i] = c) - 1

RECURSIVE LStrip(_)
LStrip(s) == IF s # <<>> /\ IsSpace(Head(s)) THEN LStrip(Tail(s)) ELSE s

RECURSIVE RStrip(_)
RStrip(s) == IF s # <<>> /\ IsSpace(s[Len(s)])
             THEN RStrip(SubSeq(s, 1, Len(s) - 1)) ELSE s

\* str.strip()
Strip(s) == RStrip(LStrip(s))

LowerChar(c) == IF c = "Y" THEN "y" ELSE IF c = "N" THEN "n" ELSE c

\* str.lower()
Lower(s) == [i \in 1..Len(s) |-> LowerChar(s[i])]

\* str.split(","): the fields between the commas, at least one field
RECURSIVE SplitFrom(_, _, _)
SplitFrom(s, i, cur) ==
    IF i > Len(s) THEN <<cur>>
    ELSE IF s[i] = "," THEN <<cur>> \o SplitFrom(s, i + 1, <<>>)
    ELSE SplitFrom(s, i + 1, Append(cur, s[i]))

Split(s) == SplitFrom(s, 1, <<>>)

AllDigits(s) == \A i \in 1..Len(s) : IsDigit(s[i])

\* value of a string of decimal digits (0 for the empty string)
RECURSIVE DigitsVal(_)
DigitsVal(s) == IF s = <<>> THEN 0
                ELSE 10 * DigitsVal(SubSeq(s, 1, Len(s) - 1)) + DigitVal(s[Len(s)])

\* decimal digits of a natural number, str(n)
RECURSIVE NatStr(_)
NatStr(n) == IF n < 10 THEN <<Digit[n + 1]>>
             ELSE Append(NatStr(n \div 10), Digit[(n % 10) + 1])

\* n written with at least w digits, zero padded: f"{n:0wd}"
RECURSIVE ZeroPad(_, _)
ZeroPad(s, w) == IF Len(s) >= w THEN s ELSE ZeroPad(<<"0">> \o s, w)

RECURSIVE Pow10(_)
Pow10(k) == IF k = 0 THEN 1 ELSE 10 * Pow10(k - 1)

\* ------------------------------------------------------------------------
\*  Floats: exact rationals and nan
\* ------------------------------------------------------------------------
Abs(n) == IF n < 0 THEN -n ELSE n

RECURSIVE GCD(_, _)
GCD(a, b) == IF b = 0 THEN a ELSE GCD(b, a % b)

NaN == [k |-> "nan", n |-> 0, d |-> 1]

ValueError == [k |-> "ValueError", n |-> 0, d |-> 1]

\* the rational n/d in lowest terms, d > 0
Num(n, d) ==
    LET g == GCD(Abs(n), Abs(d))
        s == IF d < 0 THEN -1 ELSE 1
    IN  [k |-> "num", n |-> (s * n) \div g, d |-> (s * d) \div g]

Zero == Num(0, 1)

IsNum(x) == x.k = "num"

IsNaN(x) == x.k = "nan"

\* x + y
FAdd(x, y) == IF IsNaN(x) \/ IsNaN(y) THEN NaN
              ELSE Num(x.n * y.d + y.n * x.d, x.d * y.d)

\* x - y
FSub(x, y) == IF IsNaN(x) \/ IsNaN(y) THEN NaN
              ELSE Num(x.n * y.d - y.n * x.d, x.d * y.d)

\* x * 100
FMul100(x) == IF IsNaN(x) THEN NaN ELSE Num(x.n * 100, x.d)

\* x == 0 (the divisor test of ZeroDivisionError; false for nan)
FIsZero(x) == IsNum(x) /\ x.n = 0

\* x / y for y that is not zero
FDiv(x, y) == IF IsNaN(x) \/ IsNaN(y) THEN NaN
              ELSE Num(x.n * y.d, x.d * y.n)

\* x / n for a positive integer n
FDivInt(x, n) == IF IsNaN(x) THEN NaN ELSE Num(x.n, x.d * n)

\* x < 0 (false for nan)
FLt0(x) == IsNum(x) /\ x.n < 0

\* x >= 0 (false for nan)
FGe0(x) == IsNum(x) /\ x.n >= 0

\* bool(x): a float is true unless it equals 0 (nan is true)
Truthy(x) == ~FIsZero(x)

\* float(s) on a string already stripped and without sign
ParseUnsigned(s) ==
    IF s = <<"n", "a", "n">> THEN NaN
    ELSE LET dots == {i \in 1..Len(s) : s[i] = "."}
         IN  IF dots = {} THEN
                 IF s # <<>> /\ AllDigits(s) THEN Num(DigitsVal(s), 1) ELSE ValueError
             ELSE IF Cardinality(dots) > 1 THEN ValueError
             ELSE LET p == CHOOSE i \in dots : TRUE
                      ip == SubSeq(s, 1, p - 1)
                      fp == SubSeq(s, p + 1, Len(s))
                  IN  IF AllDigits(ip) /\ AllDigits(fp) /\ Len(ip) + Len(fp) > 0
                      THEN Num(DigitsVal(ip \o fp), Pow10(Len(fp)))
                      ELSE ValueError

\* float(s): surrounding whitespace ignored, optional sign, decimal or nan
ParseFloat(str) ==
    LET s == Strip(str)
    IN  IF s = <<>> THEN ValueError
        ELSE IF Head(s) = "-" THEN
            LET v == ParseUnsigned(Tail(s))
            IN  IF IsNum(v) THEN Num(-v.n, v.d) ELSE v
        ELSE IF Head(s) = "+" THEN ParseUnsigned(Tail(s))
        ELSE ParseUnsigned(s)

\* str(x) that loses the fractional digits
FormatFloat_Truncated(x) ==
    IF IsNaN(x) THEN <<"n", "a", "n">>
    ELSE (IF x.n < 0 THEN <<"-">> ELSE <<>>) \o NatStr(Abs(x.n) \div x.d) \o <<".", "0">>

\* least k with d | 10^k (d has only the prime factors 2 and 5)
RECURSIVE FracDigits(_, _)
FracDigits(d, k) == IF Pow10(k) % d = 0 THEN k ELSE FracDigits(d, k + 1)

\* str(x) of a float: "nan", or the decimal expansion with at least one
\* fractional digit ("5.0", "2.5", "-1.0")
FormatFloat(x) ==
    IF IsNaN(x) THEN <<"n", "a", "n">>
    ELSE LET a  == Abs(x.n)
             sg == IF x.n < 0 THEN <<"-">> ELSE <<>>
             ip == a \div x.d
             k  == FracDigits(x.d, 0)
             fr == ((a % x.d) * Pow10(k)) \div x.d
         IN  sg \o NatStr(ip) \o <<".">> \o
             (IF k = 0 THEN <<"0">> ELSE ZeroPad(NatStr(fr), k))

NoInt == [ok |-> FALSE, v |-> 0]

\* int(s): surrounding whitespace ignored, optional sign, decimal digits
ParseInt(str) ==
    LET s == Strip(str)
        body == IF s # <<>> /\ Head(s) \in {"-", "+"} THEN Tail(s) ELSE s
    IN  IF body # <<>> /\ AllDigits(body)
        THEN [ok |-> TRUE,
              v  |-> IF s # <<>> /\ Head(s) = "-" THEN -DigitsVal(body) ELSE DigitsVal(body)]
        ELSE NoInt

\* ------------------------------------------------------------------------
\*  Dates
\* ------------------------------------------------------------------------
Date(y, m, d) == [year |-> y, month |-> m, day |-> d]

IsLeap(y) == (y % 4 = 0) /\ ((y % 100 # 0) \/ (y % 400 = 0))

\* calendar.monthrange(year, month)[1]: the number of days of the month
monthrange(y, m) ==
    IF m = 2 THEN (IF IsLeap(y) THEN 29 ELSE 28)
    ELSE IF m \in {4, 6, 9, 11} THEN 30 ELSE 31

\* str(date): ISO format yyyy-mm-dd
IsoFormat(date) ==
    ZeroPad(NatStr(date.year), 4) \o <<"-">> \o ZeroPad(NatStr(date.month), 2)
        \o <<"-">> \o ZeroPad(NatStr(date.day), 2)

month_label(date) == NatStr(date.year) \o <<"-">> \o ZeroPad(NatStr(date.month), 2)

expense_file_for(date) ==
    <<"e", "x", "p", "e", "n", "s", "e", "s", "_">> \o month_label(date)
        \o <<".", "c", "s", "v">>

budget_file_for(date) ==
    <<"b", "u", "d", "g", "e", "t", "_">> \o month_label(date) \o <<".", "t", "x", "t">>

\* today.replace(day=1) - datetime.timedelta(days=1)
prev_month_date(today) ==
    IF today.month = 1 THEN Date(today.year - 1, 12, 31)
    ELSE Date(today.year, today.month - 1, monthrange(today.year, today.month - 1))

\* the dates on which main() is run
Dates == {Date(2023, 12, 31), Date(2024, 1, 1), Date(2024, 2, 1), Date(2024, 2, 29)}

\* ------------------------------------------------------------------------
\*  Catalog, files, console input
\* ------------------------------------------------------------------------
EXPENSE_CATEGORIES == <<
    <<"F", "o", "o", "d">>,
    <<"T", "r", "a", "n", "s", "p", "o", "r", "t">>,
    <<"H", "o", "m", "e">>,
    <<"U", "t", "i", "l", "i", "t", "i", "e", "s">>,
    <<"G", "r", "o", "c", "e", "r", "i", "e", "s">>,
    <<"E", "n", "t", "e", "r", "t", "a", "i", "n", "m", "e", "n", "t">>,
    <<"H", "e", "a", "l", "t", "h">>,
    <<"E", "d", "u", "c", "a", "t", "i", "o", "n">>,
    <<"S", "h", "o", "p", "p", "i", "n", "g">>,
    <<"W", "o", "r", "k">>,
    <<"T", "r", "a", "v", "e", "l">>,
    <<"M", "i", "s", "c", "e", "l", "l", "a", "n", "e", "o", "u", "s">>
>>

\* a test for existence that never finds the file
Exists_Never(files, path) == FALSE

\* Path.exists()
Exists(files, path) == path \in DOMAIN files

\* a write that does not reach the file
WriteText_Lost(files, path, text) == files

\* Path.write_text(text): the file is created or replaced
WriteText(files, path, text) ==
    [p \in DOMAIN files \cup {path} |-> IF p = path THEN text ELSE files[p]]

\* open("a").write(line): the line is appended, the file created if absent
AppendLine(files, path, line) ==
    [p \in DOMAIN files \cup {path} |->
        IF p = path THEN (IF Exists(files, path) THEN Append(files[p], line) ELSE <<line>>)
        ELSE files[p]]

NoFiles == [p \in {} |-> <<>>]

\* what the user may type at a y/n prompt
Answers == {<<"y">>, <<" ", "Y">>, <<"n">>}

\* what the user may type at the budget prompt
BudgetInputs == {<<"2", ".", "5">>, <<"0">>, <<"n", "a", "n">>, <<"-", "1">>, <<"x">>}

\* what the user may type at the amount prompt
AmountInputs == {<<"5">>, <<"n", "a", "n">>, <<"-", "2">>, <<>>}

\* what the user may type at the description prompt
NameInputs == {<<"a">>, <<" ", "a", ",", "b", " ">>}

\* what the user may type at the category prompt
ChoiceInputs == {<<"1", "2">>, <<"0">>, <<"1", "3">>, <<"x">>}

\* ------------------------------------------------------------------------
\*  State
\* ------------------------------------------------------------------------
VARIABLES
    clock,          \* datetime.date.today(), the calendar date of the machine
    budgetFiles,    \* budget_<label>.txt: path -> text
    expenseFiles,   \* expenses_<label>.csv: path -> sequence of lines
    pc,             \* position of the run of main()
    runs,           \* number of runs of main() started
    today,          \* main: today
    budget,         \* main: budget
    name,           \* get_user_expense: name
    amt,            \* get_user_expense: amt
    exp,            \* main: exp
    call,           \* what the current call of load_or_create_budget did
    lastRet,        \* budget path -> amount last returned for that month
    saved,          \* the line written by save_expense in this run, or <<>>
    expenses,       \* summarize: expenses
    skipped,        \* summarize: the lines reported as malformed
    amount_by_cat,  \* summarize: amount_by_cat, in insertion order
    total_spent,    \* summarize: total_spent
    remaining,      \* summarize: remaining
    remaining_pct,  \* summarize: remaining_pct
    pcts,           \* summarize: the pct printed for each category
    days_left,      \* summarize: days_left
    daily,          \* summarize: daily
    sizes,          \* visual_summary: sizes, or <<>> when no chart was drawn
    error           \* the exception that ended the run, or "none"

sumVars == <<expenses, skipped, amount_by_cat, total_spent, remaining,
             remaining_pct, pcts, days_left, daily, sizes>>

entryVars == <<name, amt, exp, saved>>

vars == <<clock, budgetFiles, expenseFiles, pc, runs, today, budget, call,
          lastRet, error, entryVars, sumVars>>

NoFloat == [k |-> "none", n |-> 0, d |-> 1]

NoExpense == [name |-> <<>>, category |-> <<>>, amount |-> NoFloat]

\* Expense(name, category, amount)
Expense(n, c, a) == [name |-> n, category |-> c, amount |-> a]

NoCall == [existed |-> FALSE, offered |-> FALSE, ans |-> <<>>, fresh |-> FALSE,
           entered |-> <<>>, writes |-> 0, prior |-> NoFloat, returned |-> FALSE]

exp_file == expense_file_for(today)

this_month_budget == budget_file_for(today)

prev_budget_path == budget_file_for(prev_month_date(today))

SumReset ==
    /\ expenses = <<>> /\ skipped = <<>> /\ amount_by_cat = <<>>
    /\ total_spent = NoFloat /\ remaining = NoFloat /\ remaining_pct = NoFloat
    /\ pcts = <<>> /\ days_left = -1 /\ daily = NoFloat /\ sizes = <<>>

Init ==
    /\ clock \in Dates
    /\ budgetFiles = NoFiles
    /\ expenseFiles = NoFiles
    /\ pc = "idle"
    /\ runs = 0
    /\ today = clock
    /\ budget = NoFloat
    /\ name = <<>> /\ amt = NoFloat /\ exp = NoExpense /\ saved = <<>>
    /\ call = NoCall
    /\ lastRet = NoFiles
    /\ error = "none"
    /\ SumReset

\* ------------------------------------------------------------------------
\*  main, lines 217-222
\* ------------------------------------------------------------------------
\* a run starts on some date; the date does not change during the run
Main_Start ==
    /\ pc \in {"idle", "done", "crashed"}
    /\ runs < MaxRuns
    /\ runs' = runs + 1
    /\ clock' \in Dates
    /\ today' = clock'
    /\ pc' = "load_or_create_budget"
    /\ budget' = NoFloat
    /\ call' = [NoCall EXCEPT
                  !.existed = Exists(budgetFiles, budget_file_for(clock')),
                  !.prior = IF budget_file_for(clock') \in DOMAIN lastRet
                            THEN lastRet[budget_file_for(clock')] ELSE NoFloat]
    /\ name' = <<>> /\ amt' = NoFloat /\ exp' = NoExpense /\ saved' = <<>>
    /\ error' = "none"
    /\ expenses' = <<>> /\ skipped' = <<>> /\ amount_by_cat' = <<>>
    /\ total_spent' = NoFloat /\ remaining' = NoFloat /\ remaining_pct' = NoFloat
    /\ pcts' = <<>> /\ days_left' = -1 /\ daily' = NoFloat /\ sizes' = <<>>
    /\ UNCHANGED <<budgetFiles, expenseFiles, lastRet>>

\* ------------------------------------------------------------------------
\*  load_or_create_budget, lines 56-96
\* ------------------------------------------------------------------------
\* the run ends with an uncaught exception
Raise(e) == pc' = "crashed" /\ error' = e

\* return v to main
Return(v, c) ==
    /\ budget' = v
    /\ call' = [c EXCEPT !.returned = TRUE]
    /\ lastRet' = [p \in DOMAIN lastRet \cup {this_month_budget} |->
                      IF p = this_month_budget THEN v ELSE lastRet[p]]
    /\ pc' = "ask_add"
    /\ error' = error

\* float(path.read_text().strip())
ReadBudget(files, path) == ParseFloat(Strip(files[path]))

\* lines 66-67: a budget for this month exists
LB_Load ==
    /\ pc = "load_or_create_budget"
    /\ Exists(budgetFiles, this_month_budget)
    /\ LET v == ReadBudget(budgetFiles, this_month_budget)
       IN  IF v = ValueError
           THEN Raise("ValueError") /\ UNCHANGED <<budget, call, lastRet>>
           ELSE Return(v, call)
    /\ UNCHANGED <<clock, budgetFiles, expenseFiles, runs, today, entryVars, sumVars>>

\* the offer made on any day of the month
ReuseOffered_AnyDay(files, date) ==
    budget_file_for(prev_month_date(date)) \in DOMAIN files

\* line 72: the reuse of last month's budget is offered
ReuseOffered(files, date) ==
    date.day = 1 /\ Exists(files, budget_file_for(prev_month_date(date)))

\* lines 78-79, 210, 228: input(...).strip().lower() == "y"
Confirmed(ans) == Lower(Strip(ans)) = <<"y">>

\* lines 72-81: first of the month and last month's budget exists
LB_OfferReuse ==
    /\ pc = "load_or_create_budget"
    /\ ~Exists(budgetFiles, this_month_budget)
    /\ ReuseOffered(budgetFiles, today)
    /\ LET prev_budget_value == ReadBudget(budgetFiles, prev_budget_path)
       IN  IF prev_budget_value = ValueError
           THEN Raise("ValueError") /\ UNCHANGED <<budget, call, lastRet, budgetFiles>>
           ELSE \E ans \in Answers :
                  LET c == [call EXCEPT !.offered = TRUE, !.ans = ans]
                  IN  IF Confirmed(ans)
                      THEN /\ budgetFiles' = WriteText(budgetFiles, this_month_budget,
                                                       FormatFloat(prev_budget_value))
                           /\ Return(prev_budget_value, [c EXCEPT !.writes = @ + 1])
                      ELSE /\ pc' = "fresh_budget"
                           /\ call' = c
                           /\ UNCHANGED <<budget, lastRet, budgetFiles, error>>
    /\ UNCHANGED <<clock, expenseFiles, runs, today, entryVars, sumVars>>

\* line 72 is false: straight to the fresh budget
LB_NoReuse ==
    /\ pc = "load_or_create_budget"
    /\ ~Exists(budgetFiles, this_month_budget)
    /\ ~ReuseOffered(budgetFiles, today)
    /\ pc' = "fresh_budget"
    /\ UNCHANGED <<clock, budgetFiles, expenseFiles, runs, today, budget, call,
                   lastRet, error, entryVars, sumVars>>

\* lines 86-93, 109-115: the loop leaves with the number v
Accepted(v) == v # ValueError /\ ~FLt0(v)

\* lines 84-96: one round of the fresh budget prompt
LB_Fresh ==
    /\ pc = "fresh_budget"
    /\ \E s \in BudgetInputs :
         LET new_budget == ParseFloat(s)
             c == [call EXCEPT !.fresh = TRUE, !.entered = s]
         IN  IF Accepted(new_budget)
             THEN /\ budgetFiles' = WriteText(budgetFiles, this_month_budget,
                                              FormatFloat(new_budget))
                  /\ Return(new_budget, [c EXCEPT !.writes = @ + 1])
             ELSE /\ call' = [call EXCEPT !.fresh = TRUE]
                  /\ UNCHANGED <<pc, budget, lastRet, budgetFiles, error>>
    /\ UNCHANGED <<clock, expenseFiles, runs, today, entryVars, sumVars>>

\* ------------------------------------------------------------------------
\*  main line 228, get_user_expense lines 102-128, save_expense lines 131-137
\* ------------------------------------------------------------------------
Main_AskAdd ==
    /\ pc = "ask_add"
    /\ \E ans \in Answers :
         pc' = IF Confirmed(ans) THEN "get_user_expense" ELSE "summarize"
    /\ UNCHANGED <<clock, budgetFiles, expenseFiles, runs, today, budget, call,
                   lastRet, error, entryVars, sumVars>>

\* line 105
GE_Name ==
    /\ pc = "get_user_expense"
    /\ \E s \in NameInputs : name' = Strip(s)
    /\ pc' = "amount"
    /\ UNCHANGED <<clock, budgetFiles, expenseFiles, runs, today, budget, call,
                   lastRet, error, amt, exp, saved, sumVars>>

\* lines 107-115: one round of the amount prompt
GE_Amount ==
    /\ pc = "amount"
    /\ \E s \in AmountInputs :
         LET v == ParseFloat(s)
         IN  IF Accepted(v) THEN amt' = v /\ pc' = "category"
                            ELSE UNCHANGED <<amt, pc>>
    /\ UNCHANGED <<clock, budgetFiles, expenseFiles, runs, today, budget, call,
                   lastRet, error, name, exp, saved, sumVars>>

\* lines 117-128: one round of the category prompt
GE_Category ==
    /\ pc = "category"
    /\ \E s \in ChoiceInputs :
         LET r == ParseInt(s)
             idx == r.v - 1
         IN  IF r.ok /\ 0 <= idx /\ idx < Len(EXPENSE_CATEGORIES)
             THEN /\ exp' = Expense(name, EXPENSE_CATEGORIES[idx + 1], amt)
                  /\ pc' = "save_expense"
             ELSE UNCHANGED <<exp, pc>>
    /\ UNCHANGED <<clock, budgetFiles, expenseFiles, runs, today, budget, call,
                   lastRet, error, name, amt, saved, sumVars>>

\* line 136: f"{today},{exp.name},{exp.amount},{exp.category}\n"
ExpenseLine(date, e) ==
    IsoFormat(date) \o <<",">> \o e.name \o <<",">> \o FormatFloat(e.amount)
        \o <<",">> \o e.category \o <<"\n">>

\* lines 131-137
Save_Expense ==
    /\ pc = "save_expense"
    /\ expenseFiles' = AppendLine(expenseFiles, exp_file, ExpenseLine(clock, exp))
    /\ saved' = ExpenseLine(clock, exp)
    /\ pc' = "summarize"
    /\ UNCHANGED <<clock, budgetFiles, runs, today, budget, call, lastRet, error,
                   name, amt, exp, sumVars>>

\* ------------------------------------------------------------------------
\*  summarize, lines 170-211, and visual_summary, lines 143-167
\* ------------------------------------------------------------------------
ZeroDivisionError == [k |-> "ZeroDivisionError", n |-> 0, d |-> 1]

\* a parse that takes the last three fields and joins the others as the name
ParseLine_FromRight(line) ==
    LET f == Split(Strip(line))
        n == Len(f)
    IN  IF n < 4 THEN [ok |-> FALSE, exp |-> NoExpense]
        ELSE LET a == ParseFloat(f[n - 1])
             IN  IF a = ValueError THEN [ok |-> FALSE, exp |-> NoExpense]
                 ELSE [ok |-> TRUE, exp |-> Expense(f[2], f[n], a)]

\* lines 180-183: one line of the store; ok is false when the line raises
\* ValueError (the unpacking of the fields, or float(amt)) and is skipped
ParseLine(line) ==
    LET f == Split(Strip(line))
    IN  IF Len(f) # 4 THEN [ok |-> FALSE, exp |-> NoExpense]
        ELSE LET a == ParseFloat(f[3])
             IN  IF a = ValueError THEN [ok |-> FALSE, exp |-> NoExpense]
                 ELSE [ok |-> TRUE, exp |-> Expense(f[2], f[4], a)]

\* lines 176-183: the expenses parsed from the lines, in order
RECURSIVE ParseLines(_)
ParseLines(lines) ==
    IF lines = <<>> THEN <<>>
    ELSE LET r == ParseLine(Head(lines))
         IN  (IF r.ok THEN <<r.exp>> ELSE <<>>) \o ParseLines(Tail(lines))

\* line 183: the lines reported as malformed, in order
RECURSIVE SkippedLines(_)
SkippedLines(lines) ==
    IF lines = <<>> THEN <<>>
    ELSE (IF ParseLine(Head(lines)).ok THEN <<>> ELSE <<Strip(Head(lines))>>)
             \o SkippedLines(Tail(lines))

\* line 187: amount_by_cat[cat] = amount_by_cat.get(cat, 0) + amount
DictAdd(dict, cat, amount) ==
    IF \E i \in 1..Len(dict) : dict[i].cat = cat
    THEN [i \in 1..Len(dict) |->
            IF dict[i].cat = cat
            THEN [cat |-> cat, amt |-> FAdd(dict[i].amt, amount)] ELSE dict[i]]
    ELSE Append(dict, [cat |-> cat, amt |-> FAdd(Zero, amount)])

\* lines 185-187: the totals per category, in order of first occurrence
RECURSIVE Aggregate(_, _)
Aggregate(dict, exps) ==
    IF exps = <<>> THEN dict
    ELSE Aggregate(DictAdd(dict, Head(exps).category, Head(exps).amount), Tail(exps))

\* line 189: sum(exp.amount for exp in expenses)
RECURSIVE Total(_)
Total(exps) ==
    IF exps = <<>> THEN Zero
    ELSE FAdd(Total(SubSeq(exps, 1, Len(exps) - 1)), exps[Len(exps)].amount)

\* line 191
RemainingPct(rem, bud) == IF Truthy(bud) THEN FMul100(FDiv(rem, bud)) ELSE Zero

\* lines 196-197: the percentage printed for a category; line 196 divides by
\* the budget whenever total_spent is true, line 197 overwrites its result
CliPercent(a, total, bud) ==
    IF Truthy(total) /\ FIsZero(bud) THEN ZeroDivisionError
    ELSE IF Truthy(total) THEN FMul100(FDiv(a, total)) ELSE Zero

\* days left counted with today included
DaysLeft_Inclusive(date) == monthrange(date.year, date.month) - date.day + 1

\* line 205
DaysLeft(date) == monthrange(date.year, date.month) - date.day

\* line 206
Daily(rem, left) == IF left # 0 THEN FDivInt(rem, left) ELSE Zero

\* a slice sized relative to the spending
SlicePercent_OfSpending(a, total, bud) ==
    IF Truthy(total) THEN FMul100(FDiv(a, total)) ELSE Zero

\* line 152: the size of a category slice
SlicePercent(a, total, bud) == IF Truthy(bud) THEN FMul100(FDiv(a, bud)) ELSE Zero

\* lines 147-155: sizes, the slice "Remaining" first
ChartSizes(dict, total, rem_pct, bud) ==
    <<rem_pct>> \o [i \in 1..Len(dict) |-> SlicePercent(dict[i].amt, total, bud)]

\* lines 172-174
Sum_Check ==
    /\ pc = "summarize"
    /\ pc' = IF ~Exists(expenseFiles, exp_file) \/ Len(expenseFiles[exp_file]) = 0
             THEN "done" ELSE "parse"
    /\ UNCHANGED <<clock, budgetFiles, expenseFiles, runs, today, budget, call,
                   lastRet, error, entryVars, sumVars>>

\* lines 176-183
Sum_Parse ==
    /\ pc = "parse"
    /\ expenses' = ParseLines(expenseFiles[exp_file])
    /\ skipped' = SkippedLines(expenseFiles[exp_file])
    /\ pc' = "aggregate"
    /\ UNCHANGED <<clock, budgetFiles, expenseFiles, runs, today, budget, call,
                   lastRet, error, entryVars, amount_by_cat, total_spent, remaining,
                   remaining_pct, pcts, days_left, daily, sizes>>

\* lines 185-191
Sum_Aggregate ==
    /\ pc = "aggregate"
    /\ amount_by_cat' = Aggregate(<<>>, expenses)
    /\ total_spent' = Total(expenses)
    /\ remaining' = FSub(budget, Total(expenses))
    /\ remaining_pct' = RemainingPct(FSub(budget, Total(expenses)), budget)
    /\ pc' = "print"
    /\ UNCHANGED <<clock, budgetFiles, expenseFiles, runs, today, budget, call,
                   lastRet, error, entryVars, expenses, skipped, pcts, days_left,
                   daily, sizes>>

\* lines 194-201: the loop over the categories; an exception ends the run
Sum_Print ==
    /\ pc = "print"
    /\ LET p == [i \in 1..Len(amount_by_cat) |->
                    CliPercent(amount_by_cat[i].amt, total_spent, budget)]
       IN  IF \E i \in 1..Len(p) : p[i] = ZeroDivisionError
           THEN Raise("ZeroDivisionError") /\ UNCHANGED pcts
           ELSE pcts' = p /\ pc' = "daily" /\ UNCHANGED error
    /\ UNCHANGED <<clock, budgetFiles, expenseFiles, runs, today, budget, call,
                   lastRet, entryVars, expenses, skipped, amount_by_cat, total_spent,
                   remaining, remaining_pct, days_left, daily, sizes>>

\* lines 204-207
Sum_Daily ==
    /\ pc = "daily"
    /\ days_left' = DaysLeft(clock)
    /\ daily' = Daily(remaining, DaysLeft(clock))
    /\ pc' = "ask_chart"
    /\ UNCHANGED <<clock, budgetFiles, expenseFiles, runs, today, budget, call,
                   lastRet, error, entryVars, expenses, skipped, amount_by_cat,
                   total_spent, remaining, remaining_pct, pcts, sizes>>

\* lines 210-211
Sum_AskChart ==
    /\ pc = "ask_chart"
    /\ \E ans \in Answers :
         sizes' = IF Confirmed(ans)
                  THEN ChartSizes(amount_by_cat, total_spent, remaining_pct, budget)
                  ELSE <<>>
    /\ pc' = "done"
    /\ UNCHANGED <<clock, budgetFiles, expenseFiles, runs, today, budget, call,
                   lastRet, error, entryVars, expenses, skipped, amount_by_cat,
                   total_spent, remaining, remaining_pct, pcts, days_left, daily>>

\* ------------------------------------------------------------------------
\*  Specifications
\* ------------------------------------------------------------------------
\* runs of main() from empty stores
Next ==
    \/ Main_Start
    \/ LB_Load
    \/ LB_OfferReuse
    \/ LB_NoReuse
    \/ LB_Fresh
    \/ Main_AskAdd
    \/ GE_Name
    \/ GE_Amount
    \/ GE_Category
    \/ Save_Expense
    \/ Sum_Check
    \/ Sum_Parse
    \/ Sum_Aggregate
    \/ Sum_Print
    \/ Sum_Daily
    \/ Sum_AskChart

Spec == Init /\ [][Next]_vars

\* lines of an expense store that the program did not necessarily write
LineFood50 == <<"2", "0", "2", "4", "-", "0", "2", "-", "0", "1", ",", "a", ",", "5", "0", ",", "F", "o", "o", "d", "\n">>

LineFood2_5 == <<"2", "0", "2", "4", "-", "0", "2", "-", "0", "1", ",", "b", ",", "2", ".", "5", ",", "F", "o", "o", "d", "\n">>

LineHome10 == <<"2", "0", "2", "4", "-", "0", "2", "-", "0", "2", ",", "a", ",", "1", "0", ".", "0", ",", "H", "o", "m", "e", "\n">>

LineHomeNeg50 == <<"2", "0", "2", "4", "-", "0", "2", "-", "0", "2", ",", "a", ",", "-", "5", "0", ",", "H", "o", "m", "e", "\n">>

LineGarbage == <<"g", "a", "r", "b", "a", "g", "e", "\n">>

LineFiveFields == <<"2", "0", "2", "4", "-", "0", "2", "-", "0", "3", ",", "a", ",", "b", ",", "5", ".", "0", ",", "F", "o", "o", "d", "\n">>

LineAmountX == <<"2", "0", "2", "4", "-", "0", "2", "-", "0", "3", ",", "a", ",", "x", ",", "F", "o", "o", "d", "\n">>

LineWorkNan == <<"2", "0", "2", "4", "-", "0", "2", "-", "0", "3", ",", "a", ",", "n", "a", "n", ",", "W", "o", "r", "k", "\n">>

LineBlank == <<"\n">>

SampleLines == {LineFood50, LineFood2_5, LineHome10, LineHomeNeg50, LineGarbage, LineFiveFields, LineAmountX, LineWorkNan, LineBlank}

\* the stores of at most n lines
RECURSIVE Stores(_)
Stores(n) ==
    IF n = 0 THEN {<<>>}
    ELSE LET S == Stores(n - 1)
         IN  S \cup {Append(st, l) : st \in S, l \in SampleLines}

\* budgets handed to summarize
SumBudgets == {Zero, Num(50, 1), Num(100, 1), Num(5, 2), NaN}

\* dates on which summarize runs
SumDates == {Date(2024, 1, 1), Date(2024, 2, 28), Date(2024, 2, 29),
             Date(2023, 2, 28), Date(2024, 4, 30), Date(2100, 2, 28)}

\* summarize(expense_path, budget) called on any store, budget and date
InitSum ==
    /\ clock \in SumDates
    /\ today = clock
    /\ budget \in SumBudgets
    /\ budgetFiles = NoFiles
    /\ \/ expenseFiles = NoFiles
       \/ \E st \in Stores(MaxStoreLen) :
              expenseFiles = [p \in {expense_file_for(clock)} |-> st]
    /\ pc = "summarize"
    /\ runs = 1
    /\ name = <<>> /\ amt = NoFloat /\ exp = NoExpense /\ saved = <<>>
    /\ call = NoCall
    /\ lastRet = NoFiles
    /\ error = "none"
    /\ SumReset

NextSum ==
    \/ Sum_Check
    \/ Sum_Parse
    \/ Sum_Aggregate
    \/ Sum_Print
    \/ Sum_Daily
    \/ Sum_AskChart

SpecSum == InitSum /\ [][NextSum]_vars

\* ------------------------------------------------------------------------
\*  Properties
\* ------------------------------------------------------------------------
\* the run is past the parsing loop of summarize
Parsed == pc \in {"aggregate", "print", "daily", "ask_chart", "done", "crashed"}
              /\ Exists(expenseFiles, exp_file) /\ Len(expenseFiles[exp_file]) > 0

\* the run is past lines 185-191 of summarize
Aggregated == Parsed /\ pc # "aggregate"

Last(seq) == seq[Len(seq)]

Range(seq) == {seq[i] : i \in 1..Len(seq)}

\* C1: in summarize, with a budget of 0 and at least one well-formed record,
\* no division raises ZeroDivisionError, and the percentages taken relative
\* to the budget are 0
C1_DivisionSafe ==
    (Parsed /\ FIsZero(budget) /\ expenses # <<>>) =>
        /\ error # "ZeroDivisionError"
        /\ Aggregated => remaining_pct = Zero
        /\ \A i \in 1..Len(sizes) : sizes[i] = Zero

\* C2: the expense appended by save_expense is read back by summarize as a
\* record with the same description, amount and category, and its line is
\* not skipped as malformed
C2_RoundTrip ==
    (Parsed /\ saved # <<>>) =>
        /\ expenses # <<>>
        /\ Last(expenses) = exp
        /\ Strip(saved) \notin Range(skipped)

\* C3: a call of load_or_create_budget in a month for which an earlier call
\* returned returns the same amount, prompts for nothing and writes nothing
C3_Idempotent ==
    (call.returned /\ call.prior # NoFloat) =>
        /\ budget = call.prior
        /\ ~call.offered
        /\ ~call.fresh
        /\ call.writes = 0

C3_Witness ==
    /\ call.returned
    /\ call.prior = Num(5, 2)
    /\ budget = Num(5, 2)
    /\ runs = 2

\* the budget record of this month holds the amount v
C4_Stored(v) ==
    /\ Exists(budgetFiles, this_month_budget)
    /\ ReadBudget(budgetFiles, this_month_budget) = v

\* the body of C4 for a given reading of "the user confirmed"
C4_Body(yes) ==
    (call.returned /\ ~call.existed) =>
        /\ call.offered <=> (today.day = 1 /\ Exists(budgetFiles, prev_budget_path))
        /\ (call.offered /\ yes) =>
              /\ ~call.fresh
              /\ budget = ReadBudget(budgetFiles, prev_budget_path)
              /\ C4_Stored(budget)
        /\ ~(call.offered /\ yes) =>
              /\ call.fresh
              /\ budget = ParseFloat(call.entered)
              /\ C4_Stored(budget)

\* C4 as stated: the reuse is taken on the answer "y" and on no other answer
C4_Original == C4_Body(call.ans = <<"y">>)

\* C4 amended: without a record for this month, the reuse is offered exactly
\* on day 1 with a record for the preceding month; an answer that is "y"
\* once trimmed and lower-cased copies that amount without a fresh prompt,
\* any other answer leads to the fresh prompt, whose amount is stored
C4_Amended == C4_Body(Lower(Strip(call.ans)) = <<"y">>)

C4_Witness ==
    /\ call.returned
    /\ call.offered
    /\ call.ans = <<" ", "Y">>
    /\ ~call.fresh
    /\ budget = Num(5, 2)

\* C6 as stated: every call that returns has written the record exactly once
C6_Original == call.returned => call.writes = 1

\* C6 amended: a call that returns has written the record exactly once when
\* the month had no record (carry-over or fresh entry) and not at all when it
\* had one; in both cases the record then holds the amount returned
C6_Amended ==
    call.returned =>
        /\ call.writes = (IF call.existed THEN 0 ELSE 1)
        /\ Exists(budgetFiles, this_month_budget)
        /\ ReadBudget(budgetFiles, this_month_budget) = budget

C6_Witness ==
    /\ call.returned
    /\ call.existed
    /\ call.writes = 0
    /\ budget = Zero

\* C7: a budget record, once created, stays and keeps its text, whatever
\* runs follow; a carry-over writes only the record of another month
C7_NeverMutated ==
    [][\A p \in DOMAIN budgetFiles :
          p \in DOMAIN budgetFiles' /\ budgetFiles'[p] = budgetFiles[p]]_vars

C7_Witness ==
    /\ call.returned
    /\ call.offered
    /\ call.writes = 1
    /\ Cardinality(DOMAIN budgetFiles) = 2
    /\ budgetFiles[this_month_budget] = budgetFiles[prev_budget_path]

\* C8: every budget record written and every expense constructed for
\* appending has an amount >= 0
C8_NonNegative ==
    /\ \A p \in DOMAIN budgetFiles : FGe0(ReadBudget(budgetFiles, p))
    /\ exp # NoExpense => FGe0(exp.amount)

\* what summarize is to make of each sample line: whether it is well formed
\* (four fields, an amount that float() accepts, nan included), its category
\* and its amount
C5_Reading ==
    (LineFood50 :> [ok |-> TRUE, cat |-> <<"F", "o", "o", "d">>, amt |-> Num(50, 1)]) @@
    (LineFood2_5 :> [ok |-> TRUE, cat |-> <<"F", "o", "o", "d">>, amt |-> Num(5, 2)]) @@
    (LineHome10 :> [ok |-> TRUE, cat |-> <<"H", "o", "m", "e">>, amt |-> Num(10, 1)]) @@
    (LineHomeNeg50 :> [ok |-> TRUE, cat |-> <<"H", "o", "m", "e">>, amt |-> Num(-50, 1)]) @@
    (LineWorkNan :> [ok |-> TRUE, cat |-> <<"W", "o", "r", "k">>, amt |-> NaN]) @@
    (LineGarbage :> [ok |-> FALSE, cat |-> <<>>, amt |-> Zero]) @@
    (LineFiveFields :> [ok |-> FALSE, cat |-> <<>>, amt |-> Zero]) @@
    (LineAmountX :> [ok |-> FALSE, cat |-> <<>>, amt |-> Zero]) @@
    (LineBlank :> [ok |-> FALSE, cat |-> <<>>, amt |-> Zero])

\* the sum of the amounts of the well-formed lines of category c
RECURSIVE C5_SumOf(_, _)
C5_SumOf(lines, c) ==
    IF lines = <<>> THEN Zero
    ELSE LET r == C5_Reading[Last(lines)]
             rest == C5_SumOf(SubSeq(lines, 1, Len(lines) - 1), c)
         IN  IF r.ok /\ r.cat = c THEN FAdd(rest, r.amt) ELSE rest

\* the sum of the amounts of the well-formed lines
RECURSIVE C5_SumAll(_)
C5_SumAll(lines) ==
    IF lines = <<>> THEN Zero
    ELSE LET r == C5_Reading[Last(lines)]
             rest == C5_SumAll(SubSeq(lines, 1, Len(lines) - 1))
         IN  IF r.ok THEN FAdd(rest, r.amt) ELSE rest

C5_IsGood(line) == C5_Reading[line].ok

C5_IsBad(line) == ~C5_Reading[line].ok

\* C5: on a non-empty store summarize skips exactly the malformed lines, is
\* not ended by them, and takes the totals per category and the grand total
\* from the well-formed lines only
C5_SkipsMalformed ==
    Parsed =>
        LET lines == expenseFiles[exp_file]
            good == SelectSeq(lines, C5_IsGood)
            bad == SelectSeq(lines, C5_IsBad)
        IN  /\ error # "ValueError"
            /\ skipped = [i \in 1..Len(bad) |-> Strip(bad[i])]
            /\ Len(expenses) = Len(good)
            /\ \A i \in 1..Len(good) :
                  /\ expenses[i].category = C5_Reading[good[i]].cat
                  /\ expenses[i].amount = C5_Reading[good[i]].amt
            /\ Aggregated =>
                  /\ total_spent = C5_SumAll(lines)
                  /\ \A i \in 1..Len(good) :
                        LET c == C5_Reading[good[i]].cat
                            hits == {j \in 1..Len(amount_by_cat) : amount_by_cat[j].cat = c}
                        IN  /\ Cardinality(hits) = 1
                            /\ \A j \in hits : amount_by_cat[j].amt = C5_SumOf(lines, c)
                  /\ \A j \in 1..Len(amount_by_cat) :
                        \E i \in 1..Len(good) : C5_Reading[good[i]].cat = amount_by_cat[j].cat

C5_Witness ==
    /\ pc = "done"
    /\ Exists(expenseFiles, exp_file)
    /\ expenseFiles[exp_file] = <<LineFood50, LineGarbage>>
    /\ skipped = <<Strip(LineGarbage)>>
    /\ total_spent = Num(50, 1)

C10_DaysIn ==
    (<<2024, 1>> :> 31) @@ (<<2024, 2>> :> 29) @@ (<<2023, 2>> :> 28) @@
    (<<2024, 4>> :> 30) @@ (<<2100, 2>> :> 28)

\* C10: days_left is the length of the month minus the day of the month;
\* daily is remaining / days_left when days are left, and on the last day
\* of the month days_left is 0 and daily is exactly 0
C10_DailyAllowance ==
    pc \in {"ask_chart", "done"} /\ Parsed =>
        LET last == C10_DaysIn[<<clock.year, clock.month>>]
        IN  /\ days_left = last - clock.day
            /\ remaining = FSub(budget, total_spent)
            /\ days_left > 0 =>
                  IF IsNaN(remaining) THEN IsNaN(daily)
                  ELSE /\ IsNum(daily)
                       /\ daily.n * remaining.d * days_left = remaining.n * daily.d
            /\ clock.day = last => (days_left = 0 /\ daily = Zero)

C10_Witness ==
    /\ pc = "done"
    /\ Parsed
    /\ clock = Date(2100, 2, 28)
    /\ FLt0(remaining)
    /\ days_left = 0
    /\ daily = Zero

====
